---- MODULE Spec2Model ----
(***************************************************************************)
(* Model of ConvLSTM_pytorch/convLSTM.py: construction of the stacked      *)
(* ConvLSTM predictor (ConvLSTM.__init__) and one forward evaluation       *)
(* (ConvLSTM.forward).  The recurrent cells and the readout convolution    *)
(* are external; they are modelled as uninterpreted functions that build   *)
(* symbolic terms, so two fields are equal exactly when they were computed *)
(* the same way from the same operands.  Python lists are objects on a     *)
(* heap and the variables that hold them are references, so aliasing is    *)
(* visible.                                                                *)
(***************************************************************************)
EXTENDS Integers, Sequences, FiniteSets, TLC

\* ---------------------------------------------------------------- bounds
MaxLayers == 2
MaxSeqLen == 3
\* forward calls made on one predictor, and timesteps they run in total
MaxCalls == 2
MaxSteps == 4

\* batch size of the cached default state, self._init_hidden(1)
Batch == 1

\* ------------------------------------------------------- python values
\* A constructor argument: a python list (islist) of elements, or a single
\* element held in elems[1].  An element is a tuple or an int.
PyTuple(s) == [tag |-> "tuple", val |-> s]
PyInt(n)   == [tag |-> "int", val |-> <<n>>]
\* a tuple of non-integers: the components are val[k] / den
PyFloatTuple(s) == [tag |-> "tuple", val |-> s, den |-> 2]
Single(e)  == [islist |-> FALSE, elems |-> <<e>>]
PyList(s)  == [islist |-> TRUE, elems |-> s]

KernelAt(i) == IF i % 2 = 1 THEN PyTuple(<<3, 3>>) ELSE PyTuple(<<5, 5>>)
HiddenAt(i) == IF i % 2 = 1 THEN PyInt(4) ELSE PyInt(8)

\* kernel_size arguments: a pair, an int, lists of pairs of every length up
\* to MaxLayers + 1, a list holding an int, tuples of one and of three
\* integers, and a list holding a pair of non-integers.
KernelArgs ==
  {Single(PyTuple(<<3, 3>>)), Single(PyInt(3)), PyList(<<PyInt(3)>>),
   Single(PyTuple(<<3>>)), Single(PyTuple(<<3, 3, 3>>)),
   PyList(<<PyFloatTuple(<<3, 3>>)>>)}
    \cup {PyList([i \in 1..n |-> KernelAt(i)]) : n \in 0..(MaxLayers + 1)}

\* hidden_dim arguments: an int and lists of ints of every length up to
\* MaxLayers + 1.
HiddenArgs ==
  {Single(PyInt(4))}
    \cup {PyList([i \in 1..n |-> HiddenAt(i)]) : n \in 0..(MaxLayers + 1)}

InputDims == {1}

\* ------------------------------------------------------ forward inputs
Modes == {"Train", "Validation", "Test"}
\* epsilon in tenths: 0.0, 0.5, 1.0
Epsilons == {0, 5, 10}
PriorKinds == {"None", "given"}
\* a later call may also hand back the state the previous call returned
LaterPriorKinds == PriorKinds \cup {"returned"}

None == 0

\* symbolic tensors: v is the term that computes the value, g says whether
\* the tensor is attached to a computation graph
Tensor(v, g) == [v |-> v, g |-> g]
NoField == Tensor(<<"none">>, FALSE)

\* ground-truth input field of time index t, as a float tensor
X(t) == Tensor(<<"x", t>>, FALSE)

\* a batch-first numpy input of n timesteps, shape (1, n, c, h, w)
InputBF(n) == << [t \in 1..n |-> <<"np", t - 1>>] >>
\* a time-first numpy input of n timesteps, shape (n, 1, c, h, w)
InputTF(n) == [t \in 1..n |-> << <<"np", t - 1>> >>]

\* torch.from_numpy(input_x).float().to(device)
FromNumpy(a) == [b \in 1..Len(a) |-> [t \in 1..Len(a[b]) |-> X(a[b][t][2])]]

\* input_tensor.permute(1, 0, 2, 3, 4) on a (d0, 1) array
Permute(a) == << [t \in 1..Len(a) |-> a[t][1]] >>

\* mutation of Size1: the last of several timesteps is left out
Size1Short(a) == IF Len(a[1]) > 1 THEN Len(a[1]) - 1 ELSE Len(a[1])

\* input_x.size(1)
Size1(a) == Len(a[1])
\* cur_layer_input[:, t, :, :, :] for batch size 1
Slice(a, t) == a[1][t + 1]

\* the state a caller hands in: one (h, c) pair per layer, attached to the
\* graph of the call that produced it
GivenState(n) ==
  [l \in 1..n |-> <<Tensor(<<"h0", l - 1>>, TRUE), Tensor(<<"c0", l - 1>>, TRUE)>>]

\* ------------------------------------------------ external collaborators
\* ConvLSTMCell.init_hidden(batch_size): zero (h, c)
CellInitHidden(l, b) ==
  <<Tensor(<<"zero_h", l, b>>, FALSE), Tensor(<<"zero_c", l, b>>, FALSE)>>

\* ConvLSTMCell.__call__(input_tensor, cur_state) of layer l -> (h, c)
Cell(l, x, st) ==
  <<Tensor(<<"h", l, x.v, st[1].v, st[2].v>>, TRUE),
    Tensor(<<"c", l, x.v, st[1].v, st[2].v>>, TRUE)>>

\* the last Conv2d of cell_list applied to the top hidden field
Readout(h) == Tensor(<<"y", h.v>>, TRUE)

\* torch.squeeze(train_y, 0)
Squeeze(y) == Tensor(<<"sq", y.v>>, y.g)

\* loss(prediction, dev_y[t]).item()
Loss(p, t) == <<"loss", p.v, t>>

\* tensor.detach()
Detach(x) == Tensor(x.v, FALSE)

\* ------------------------------------------------------ pure helpers
\* mutation of CheckKernelSizeConsistency: a tuple must also have two entries
CheckKernelSizeIsPair(k) ==
  \/ (~k.islist /\ k.elems[1].tag = "tuple" /\ Len(k.elems[1].val) = 2)
  \/ (k.islist /\ \A j \in 1..Len(k.elems) :
                     k.elems[j].tag = "tuple" /\ Len(k.elems[j].val) = 2)

\* ConvLSTM._check_kernel_size_consistency: TRUE when it does not raise
CheckKernelSizeConsistency(k) ==
  \/ (~k.islist /\ k.elems[1].tag = "tuple")
  \/ (k.islist /\ \A i \in 1..Len(k.elems) : k.elems[i].tag = "tuple")

\* mutation of Repeat: one entry too many
RepeatOffByOne(e, n) == [i \in 1..(IF n > 0 THEN n + 1 ELSE 0) |-> e]

\* [param] * num_layers
Repeat(e, n) == [i \in 1..(IF n > 0 THEN n ELSE 0) |-> e]

\* ConvLSTM._extend_for_multilayer
ExtendForMultilayer(param, n) ==
  IF ~param.islist THEN PyList(Repeat(param.elems[1], n)) ELSE param

\* mutation of ConsistentLengths: the two lists are compared with each
\* other only
ConsistentLengthsPairOnly(ks, hd, n) == Len(ks) = Len(hd)

\* line 19: len(kernel_size) == len(hidden_dim) == num_layers
ConsistentLengths(ks, hd, n) == Len(ks) = Len(hd) /\ Len(hd) = n

\* np.random.binomial(1, epsilon, 1)[0]: the outcomes the draw can have
Binomial(eps) == IF eps = 10 THEN {1} ELSE IF eps = 0 THEN {0} ELSE {0, 1}

VARIABLES
  pc,                     \* position of the program
  err,                    \* the exception raised, "" when none
  args,                   \* arguments of ConvLSTM(...)
  kernel_size,            \* local kernel_size of __init__ (lines 16, 25)
  hidden_dim,             \* local hidden_dim of __init__ (lines 17, 24)
  cell_list,              \* cell_list of __init__, then self.cell_list
  i,                      \* loop index of __init__ (line 33)
  self_hidden,            \* self._hidden: reference to the cached state
  heap,                   \* python list objects, indexed by reference
  call,                   \* arguments of forward(...)
  hidden_state,           \* parameter/local hidden_state (reference)
  seq_len,
  cur_layer_input,
  train_x,
  train_y,
  hidden_states,          \* reference
  one_timestamp_output,   \* reference
  train_y_vals,
  forward_loss,
  last_layer_hidden_states, \* reference or None
  mode_output,
  t,
  layer_idx,
  cell_log,               \* history: every cell invocation
  state_log,              \* history: contents of hidden_states after each timestep
  y_log,                  \* history: readout prediction of each timestep
  draws,                  \* history: outcome of each Bernoulli draw
  ncalls,                 \* history: forward calls started so far
  steps,                  \* history: timesteps asked for so far
  prior_val,              \* history: contents of the prior state at call time
  prev                    \* history: the previous call and what it returned

ctorVars == <<args, kernel_size, hidden_dim, cell_list, i, self_hidden>>
fwdVars == <<call, hidden_state, seq_len, cur_layer_input, train_x, train_y,
             hidden_states, one_timestamp_output, train_y_vals, forward_loss,
             last_layer_hidden_states, mode_output, t, layer_idx>>
logVars == <<cell_log, state_log, y_log, draws>>
histVars == <<ncalls, steps, prior_val, prev>>
vars == <<pc, err, heap, ctorVars, fwdVars, logVars, histVars>>

NoOutput == [kind |-> "None", val |-> <<>>]
NoCall == [input_x |-> <<>>, hidden_state |-> None, epsilon |-> 0,
           forward_mode |-> "", prior |-> "None"]
NoPrev == [call |-> NoCall, draws |-> <<>>, mode_output |-> NoOutput,
           state |-> <<>>, prior_val |-> <<>>, start |-> <<>>]

Init ==
  /\ pc = "new"
  /\ err = ""
  /\ args \in [kernel_size : KernelArgs, hidden_dim : HiddenArgs,
               num_layers : 0..MaxLayers, input_dim : InputDims,
               batch_first : BOOLEAN]
  /\ kernel_size = args.kernel_size
  /\ hidden_dim = args.hidden_dim
  /\ cell_list = <<>>
  /\ i = 0
  /\ self_hidden = None
  /\ heap = <<>>
  /\ call = NoCall
  /\ hidden_state = None
  /\ seq_len = 0
  /\ cur_layer_input = <<>>
  /\ train_x = NoField
  /\ train_y = NoField
  /\ hidden_states = None
  /\ one_timestamp_output = None
  /\ train_y_vals = <<>>
  /\ forward_loss = <<>>
  /\ last_layer_hidden_states = None
  /\ mode_output = NoOutput
  /\ t = 0
  /\ layer_idx = 0
  /\ cell_log = <<>>
  /\ state_log = <<>>
  /\ y_log = <<>>
  /\ draws = <<>>
  /\ ncalls = 0
  /\ steps = 0
  /\ prior_val = <<>>
  /\ prev = NoPrev

\* ------------------------------------------------------- construction
\* __init__ lines 13-20: check the kernel, broadcast both arguments, compare
\* the lengths with num_layers
CtorValidate ==
  /\ UNCHANGED histVars
  /\ pc = "new"
  /\ IF ~CheckKernelSizeConsistency(args.kernel_size)
       THEN /\ pc' = "ctor_error"
            /\ err' = "ValueError: kernel_size must be tuple or list of tuples"
            /\ UNCHANGED <<kernel_size, hidden_dim>>
       ELSE LET ks == ExtendForMultilayer(args.kernel_size, args.num_layers)
                hd == ExtendForMultilayer(args.hidden_dim, args.num_layers)
            IN /\ kernel_size' = ks
               /\ hidden_dim' = hd
               /\ IF ~ConsistentLengths(ks.elems, hd.elems, args.num_layers)
                    THEN /\ pc' = "ctor_error"
                         /\ err' = "ValueError: Inconsistent list length."
                    ELSE /\ pc' = "ctor_cells"
                         /\ err' = err
  /\ UNCHANGED <<args, cell_list, i, self_hidden, heap, fwdVars, logVars>>

\* a module of cell_list
Module(kind, in_dim, hid, ks) ==
  [kind |-> kind, input_dim |-> in_dim, hidden_dim |-> hid, kernel_size |-> ks]

\* mutation of CurInputDim: a later layer takes its own hidden size
CurInputDimOwn(idx, input_dim, hd) ==
  IF idx = 0 THEN PyInt(input_dim) ELSE hd.elems[idx + 1]

\* line 34: cur_input_dim of layer idx
CurInputDim(idx, input_dim, hd) ==
  IF idx = 0 THEN PyInt(input_dim) ELSE hd.elems[idx]

\* __init__ lines 33-40: one iteration of the cell loop
CtorCell ==
  /\ UNCHANGED histVars
  /\ pc = "ctor_cells"
  /\ i < args.num_layers
  /\ LET cur_input_dim == CurInputDim(i, args.input_dim, hidden_dim)
     IN cell_list' = Append(cell_list,
                            Module("ConvLSTMCell", cur_input_dim,
                                   hidden_dim.elems[i + 1],
                                   kernel_size.elems[i + 1]))
  /\ i' = i + 1
  /\ UNCHANGED <<pc, err, args, kernel_size, hidden_dim, self_hidden, heap,
                 fwdVars, logVars>>

\* _init_hidden(batch_size): the list of the cells' initial pairs
InitHidden(n, b) == [l \in 1..n |-> CellInitHidden(l - 1, b)]

\* __init__ lines 41-51: the readout convolution, the module list and the
\* cached default state
CtorReadout ==
  /\ UNCHANGED histVars
  /\ pc = "ctor_cells"
  /\ i = args.num_layers
  /\ IF args.num_layers = 0
       THEN \* line 42: self.kernel_size[0] of an empty list
            /\ pc' = "ctor_error"
            /\ err' = "IndexError: list index out of range"
            /\ UNCHANGED <<cell_list, self_hidden, heap>>
       ELSE IF Len(kernel_size.elems[1].val) < 2
         THEN \* line 42: self.kernel_size[0][1] of a one-entry tuple
              /\ pc' = "ctor_error"
              /\ err' = "IndexError: tuple index out of range"
              /\ UNCHANGED <<cell_list, self_hidden, heap>>
       ELSE /\ cell_list' = Append(cell_list,
                                   Module("Conv2d",
                                          hidden_dim.elems[Len(hidden_dim.elems)],
                                          PyInt(1), PyTuple(<<3, 3>>)))
            /\ heap' = Append(heap, InitHidden(args.num_layers, Batch))
            /\ self_hidden' = Len(heap) + 1
            /\ pc' = "ready"
            /\ err' = err
  /\ UNCHANGED <<args, kernel_size, hidden_dim, i, fwdVars, logVars>>

\* ------------------------------------------------------------ forward
\* mutation of DetachAll: the layers come out in reverse order
DetachAllReversed(st) ==
  [l \in 1..Len(st) |-> <<Detach(st[Len(st) + 1 - l][1]),
                          Detach(st[Len(st) + 1 - l][2])>>]

\* mutation of DetachAll: the last layer's pair is lost
DetachAllDropLast(st) ==
  [l \in 1..(Len(st) - 1) |-> <<Detach(st[l][1]), Detach(st[l][2])>>]

\* [(h.detach(), c.detach()) for h, c in hidden_state]
DetachAll(st) == [l \in 1..Len(st) |-> <<Detach(st[l][1]), Detach(st[l][2])>>]

\* mutation of InitialState: every mode falls back to the cached state
InitialStateFallback(mode, hs_arg, default, detached) ==
  IF hs_arg = None THEN default
  ELSE IF mode = "Train" THEN detached ELSE hs_arg

\* lines 79-83: the list hidden_state names when the loop starts; default is
\* self._hidden, detached the new list of detached pairs
InitialState(mode, hs_arg, default, detached) ==
  IF mode = "Train"
    THEN (IF hs_arg = None THEN default ELSE detached)
    ELSE hs_arg

\* forward lines 69-99: everything before the timestep loop.  The caller
\* passes n timesteps laid out as the predictor's batch_first flag asks, and
\* either no prior state or a list of num_layers pairs that the caller owns.
ForwardBegin(n, mode, eps, prior) ==
  /\ pc \in {"ready", "done"}
  /\ LET inp == IF args.batch_first THEN InputBF(n) ELSE InputTF(n)
         heap1 == IF prior = "given"
                    THEN Append(heap, GivenState(args.num_layers)) ELSE heap
         hs_arg == IF prior = "given" THEN Len(heap1)
                   ELSE IF prior = "returned" THEN last_layer_hidden_states
                   ELSE None
         heap2 == IF mode = "Train" /\ hs_arg # None
                    THEN Append(heap1, DetachAll(heap1[hs_arg])) ELSE heap1
         hs == InitialState(mode, hs_arg, self_hidden, Len(heap2))
         x == FromNumpy(inp)
     IN /\ call' = [input_x |-> inp, hidden_state |-> hs_arg, epsilon |-> eps,
                    forward_mode |-> mode, prior |-> prior]
        /\ prior_val' = IF hs_arg = None THEN <<>> ELSE heap1[hs_arg]
        /\ IF ~args.batch_first
             THEN \* line 72 reads input_tensor, a name forward never binds
                  /\ pc' = "error"
                  /\ err' = "NameError: name 'input_tensor' is not defined"
                  /\ heap' = heap1
                  /\ hidden_state' = hs_arg
                  /\ UNCHANGED <<seq_len, cur_layer_input, train_x, train_y,
                                 hidden_states, one_timestamp_output>>
             ELSE /\ hidden_state' = hs
                  /\ seq_len' = Size1(x)
                  /\ cur_layer_input' = x
                  /\ IF Size1(x) = 0
                       THEN \* line 88: index 0 of an empty time axis
                            /\ pc' = "error"
                            /\ err' = "IndexError: index 0 is out of bounds"
                            /\ heap' = heap2
                            /\ UNCHANGED <<train_x, train_y, hidden_states,
                                           one_timestamp_output>>
                       ELSE /\ train_x' = Slice(x, 0)
                            /\ train_y' = Slice(x, 0)
                            /\ heap' = Append(heap2, <<>>)
                            /\ one_timestamp_output' = Len(heap2) + 1
                            /\ hidden_states' = hs
                            /\ pc' = "loop"
                            /\ err' = err
  /\ train_y_vals' = <<>>
  /\ forward_loss' = <<>>
  /\ last_layer_hidden_states' = None
  /\ mode_output' = NoOutput
  /\ t' = 0
  /\ layer_idx' = 0
  /\ cell_log' = <<>>
  /\ state_log' = <<>>
  /\ y_log' = <<>>
  /\ draws' = <<>>
  /\ ncalls' = ncalls + 1
  /\ steps' = steps + n
  /\ prev' = IF pc = "done"
               THEN [call |-> call, draws |-> draws, mode_output |-> mode_output,
                     state |-> IF last_layer_hidden_states = None THEN <<>>
                               ELSE heap[last_layer_hidden_states],
                     prior_val |-> prior_val,
                     start |-> IF hidden_state = None THEN <<>>
                               ELSE heap[hidden_state]]
               ELSE prev
  /\ UNCHANGED ctorVars

\* mutation of SelectedInput: a successful draw takes the field of time 0
SelectedInputFirstSlice(mode, d, x, tt, cur_x, cur_y) ==
  IF mode = "Train"
    THEN (IF d = 1 THEN Slice(x, 0) ELSE cur_y)
    ELSE IF mode = "Validation" THEN cur_y ELSE cur_x

\* mutation of SelectedInput: the branches of the draw are exchanged
SelectedInputSwapped(mode, d, x, tt, cur_x, cur_y) ==
  IF mode = "Train"
    THEN (IF d = 1 THEN cur_y ELSE Slice(x, tt))
    ELSE IF mode = "Validation" THEN cur_y ELSE cur_x

\* mutation of SelectedInput: Validation takes the ground truth
SelectedInputValidationTruth(mode, d, x, tt, cur_x, cur_y) ==
  IF mode = "Train"
    THEN (IF d = 1 THEN Slice(x, tt) ELSE cur_y)
    ELSE IF mode = "Validation" THEN Slice(x, tt) ELSE cur_x

\* the field the input-selection policy picks (lines 105-111); d is the
\* outcome of the draw
SelectedInput(mode, d, x, tt, cur_x, cur_y) ==
  IF mode = "Train"
    THEN (IF d = 1 THEN Slice(x, tt) ELSE cur_y)
    ELSE IF mode = "Validation" THEN cur_y ELSE cur_x

\* mutation of DrawOutcomes: every mode draws
DrawOutcomesAlways(mode, eps) == Binomial(eps)

\* lines 105-106: only Train mode draws; -1 stands for no draw made
DrawOutcomes(mode, eps) == IF mode = "Train" THEN Binomial(eps) ELSE {-1}

\* forward lines 101-111: enter timestep t and select its input
SelectInput ==
  /\ UNCHANGED histVars
  /\ pc = "loop"
  /\ t < seq_len
  /\ \E d \in DrawOutcomes(call.forward_mode, call.epsilon) :
       /\ train_x' = SelectedInput(call.forward_mode, d, cur_layer_input, t,
                                   train_x, train_y)
       /\ draws' = IF d = -1 THEN draws ELSE Append(draws, d)
  /\ layer_idx' = 0
  /\ pc' = "layers"
  /\ UNCHANGED <<err, heap, ctorVars, call, hidden_state, seq_len,
                 cur_layer_input, train_y, hidden_states, one_timestamp_output,
                 train_y_vals, forward_loss, last_layer_hidden_states,
                 mode_output, t, cell_log, state_log, y_log>>

\* mutation of CurState: every layer is given the first layer's pair
CurStateFirst(states, idx) == states[1]

\* line 116: hidden_states[layer_idx]
CurState(states, idx) == states[idx + 1]

\* mutation of OutputList: the new pair is appended to the state list
OutputListInPlace(out, states) == states

\* line 118: the list the new pair is appended to
OutputList(out, states) == out

\* forward lines 114-118: one iteration of the layer loop
CellStep ==
  /\ UNCHANGED histVars
  /\ pc = "layers"
  /\ layer_idx < args.num_layers
  /\ IF hidden_states = None
       THEN \* line 116: hidden_states[layer_idx] with hidden_states None
            /\ pc' = "error"
            /\ err' = "TypeError: 'NoneType' object is not subscriptable"
            /\ UNCHANGED <<heap, train_x, layer_idx, cell_log>>
       ELSE IF layer_idx + 1 > Len(heap[hidden_states])
         THEN /\ pc' = "error"
              /\ err' = "IndexError: list index out of range"
              /\ UNCHANGED <<heap, train_x, layer_idx, cell_log>>
         ELSE LET cur_state == CurState(heap[hidden_states], layer_idx)
                  hc == Cell(layer_idx, train_x, cur_state)
              IN /\ train_x' = hc[1]
                 /\ heap' = [heap EXCEPT
                              ![OutputList(one_timestamp_output, hidden_states)] =
                                 Append(@, hc)]
                 /\ cell_log' = Append(cell_log,
                                       [t |-> t, layer |-> layer_idx,
                                        input |-> train_x, state |-> cur_state,
                                        out |-> hc])
                 /\ layer_idx' = layer_idx + 1
                 /\ UNCHANGED <<pc, err>>
  /\ UNCHANGED <<ctorVars, call, hidden_state, seq_len, cur_layer_input,
                 train_y, hidden_states, one_timestamp_output, train_y_vals,
                 forward_loss, last_layer_hidden_states, mode_output, t,
                 state_log, y_log, draws>>

\* mutation of SnapshotAt: both modes snapshot after the final timestep
SnapshotAtLast(mode, tt, n) ==
  IF mode \in {"Train", "Validation"} THEN tt = n - 1 ELSE FALSE

\* mutation of SnapshotAt: both modes snapshot after timestep 0
SnapshotAtFirst(mode, tt, n) ==
  IF mode \in {"Train", "Validation"} THEN tt = 0 ELSE FALSE

\* the timestep after which the mode snapshots the state (lines 132, 138)
SnapshotAt(mode, tt, n) ==
  IF mode = "Train" THEN tt = n - 1
  ELSE IF mode = "Validation" THEN tt = 0 ELSE FALSE

\* forward lines 120-141: close timestep t: rebind the state, read out the
\* prediction, accumulate by mode
EndTimestep ==
  /\ UNCHANGED histVars
  /\ pc = "layers"
  /\ layer_idx = args.num_layers
  /\ LET new_states == heap[one_timestamp_output]
         last_hidden_state == new_states[Len(new_states)][1]
         y == Readout(last_hidden_state)
         mode == call.forward_mode
     IN /\ hidden_states' = one_timestamp_output
        /\ heap' = Append(heap, <<>>)
        /\ one_timestamp_output' = Len(heap) + 1
        /\ train_y' = y
        /\ train_y_vals' = IF mode = "Train"
                             THEN Append(train_y_vals, Squeeze(y))
                             ELSE train_y_vals
        /\ forward_loss' = IF mode = "Validation"
                             THEN Append(forward_loss, Loss(Squeeze(y), t))
                             ELSE forward_loss
        /\ last_layer_hidden_states' =
             IF SnapshotAt(mode, t, seq_len) THEN one_timestamp_output
                                             ELSE last_layer_hidden_states
        /\ state_log' = Append(state_log, new_states)
        /\ y_log' = Append(y_log, y)
  /\ t' = t + 1
  /\ pc' = "loop"
  /\ UNCHANGED <<err, ctorVars, call, hidden_state, seq_len, cur_layer_input,
                 train_x, mode_output, layer_idx, cell_log, draws>>

\* mutation of ModeOutput: the two accumulators are exchanged
ModeOutputSwapped(mode, ys, losses) ==
  IF mode = "Train" THEN [kind |-> "tensor", val |-> losses]
  ELSE IF mode = "Validation" THEN [kind |-> "list", val |-> ys]
  ELSE [kind |-> "None", val |-> <<>>]

\* mutation of ModeOutput: every mode but Train gets the loss list
ModeOutputElse(mode, ys, losses) ==
  IF mode = "Train" THEN [kind |-> "tensor", val |-> ys]
  ELSE [kind |-> "list", val |-> losses]

\* mode_output of lines 144-149
ModeOutput(mode, ys, losses) ==
  IF mode = "Train" THEN [kind |-> "tensor", val |-> ys]
  ELSE IF mode = "Validation" THEN [kind |-> "list", val |-> losses]
  ELSE NoOutput

\* forward lines 144-151: the loop is over, build mode_output and return
Return ==
  /\ UNCHANGED histVars
  /\ pc = "loop"
  /\ t = seq_len
  /\ mode_output' = ModeOutput(call.forward_mode, train_y_vals, forward_loss)
  /\ pc' = "done"
  /\ UNCHANGED <<err, heap, ctorVars, call, hidden_state, seq_len,
                 cur_layer_input, train_x, train_y, hidden_states,
                 one_timestamp_output, train_y_vals, forward_loss,
                 last_layer_hidden_states, t, layer_idx, logVars>>

Forward ==
  /\ pc = "ready"
  /\ \E n \in 0..MaxSeqLen, mode \in Modes, eps \in Epsilons, prior \in PriorKinds :
       ForwardBegin(n, mode, eps, prior)

\* a later forward call on the same predictor, after the previous call has
\* returned; the caller may hand back the state that call returned
ForwardAgain ==
  /\ pc = "done"
  /\ ncalls < MaxCalls
  /\ \E n \in 1..MaxSeqLen, mode \in Modes, eps \in Epsilons,
        prior \in LaterPriorKinds :
       /\ steps + n <= MaxSteps
       /\ prior = "returned" => last_layer_hidden_states # None
       /\ mode # "Train" => eps = call.epsilon
       /\ ForwardBegin(n, mode, eps, prior)

Next ==
  \/ CtorValidate
  \/ CtorCell
  \/ CtorReadout
  \/ Forward
  \/ SelectInput
  \/ CellStep
  \/ EndTimestep
  \/ Return

Spec == Init /\ [][Next]_vars

\* A forward call is one sequential computation: once it has started, each
\* of its steps is taken as soon as it is the next one.
SpecLive ==
  /\ Init
  /\ [][Next]_vars
  /\ WF_vars(SelectInput)
  /\ WF_vars(CellStep)
  /\ WF_vars(EndTimestep)
  /\ WF_vars(Return)

\* Several forward calls in a row on one well-formed batch-first predictor:
\* kernel_size (3, 3) and hidden_dim 4, broadcast to num_layers >= 1 layers.
InitCalls ==
  /\ Init
  /\ args.batch_first
  /\ args.num_layers >= 1
  /\ args.kernel_size = Single(PyTuple(<<3, 3>>))
  /\ args.hidden_dim = Single(PyInt(4))

NextCalls ==
  \/ CtorValidate
  \/ CtorCell
  \/ CtorReadout
  \/ Forward
  \/ ForwardAgain
  \/ SelectInput
  \/ CellStep
  \/ EndTimestep
  \/ Return

SpecCalls == InitCalls /\ [][NextCalls]_vars

TypeOK ==
  /\ pc \in {"new", "ctor_cells", "ctor_error", "ready", "loop", "layers",
             "done", "error"}
  /\ t \in 0..MaxSeqLen
  /\ layer_idx \in 0..MaxLayers

\* ============================================================ claims
Called == call.forward_mode # ""
Returned == pc = "done"
Finished == pc \in {"done", "error"}

\* the cell invocations of layer 0: what each timestep fed to the stack
Layer0Calls == {k \in 1..Len(cell_log) : cell_log[k].layer = 0}

\* C1: in Validation mode, from the end of timestep 0 on, the state to
\* return is the list of pairs produced at timestep 0; later timesteps do
\* not replace or change it, and on return it is not the state of the final
\* timestep when seq_len > 1.
C1_ValidationReturnsTimestep0State ==
  (call.forward_mode = "Validation" /\ Len(state_log) >= 1) =>
    /\ last_layer_hidden_states # None
    /\ heap[last_layer_hidden_states] = state_log[1]
    /\ Len(heap[last_layer_hidden_states]) = args.num_layers
    /\ (Returned /\ seq_len > 1 =>
          /\ last_layer_hidden_states # hidden_states
          /\ heap[last_layer_hidden_states] # state_log[seq_len])

C1_Witness ==
  /\ Returned
  /\ call.forward_mode = "Validation"
  /\ seq_len >= 2
  /\ heap[last_layer_hidden_states] = state_log[1]

\* C2: in Train mode the state to return is null until the final timestep
\* has run, and on return it is the list of pairs produced at the final
\* timestep t = seq_len - 1.
C2_TrainReturnsFinalState ==
  call.forward_mode = "Train" =>
    /\ (Len(state_log) < seq_len => last_layer_hidden_states = None)
    /\ (Returned =>
          /\ Len(state_log) = seq_len
          /\ last_layer_hidden_states # None
          /\ last_layer_hidden_states = hidden_states
          /\ heap[last_layer_hidden_states] = state_log[seq_len])

C2_Witness ==
  /\ Returned
  /\ call.forward_mode = "Train"
  /\ seq_len >= 2
  /\ heap[last_layer_hidden_states] = state_log[seq_len]
  /\ heap[last_layer_hidden_states] # state_log[1]

\* C3: in Train mode with epsilon = 1.0 every timestep feeds layer 0 the
\* ground-truth field of that timestep, never a readout prediction.
C3_TeacherForcing ==
  (call.forward_mode = "Train" /\ call.epsilon = 10) =>
    \A k \in Layer0Calls :
      /\ cell_log[k].input = X(cell_log[k].t)
      /\ \A j \in 1..Len(y_log) : cell_log[k].input # y_log[j]

C3_Witness ==
  /\ Returned
  /\ call.forward_mode = "Train"
  /\ call.epsilon = 10
  /\ Cardinality(Layer0Calls) >= 2
  /\ draws = [j \in 1..seq_len |-> 1]

\* C4: in Train mode with epsilon = 0.0 every timestep t > 0 feeds layer 0
\* the readout prediction of timestep t - 1; timestep 0 feeds the
\* ground-truth field of time 0 for every epsilon and every draw.
C4_SelfFeedback ==
  call.forward_mode = "Train" =>
    \A k \in Layer0Calls :
      /\ (cell_log[k].t = 0 => cell_log[k].input = X(0))
      /\ (call.epsilon = 0 /\ cell_log[k].t > 0 =>
            cell_log[k].input = y_log[cell_log[k].t])

C4_Witness ==
  /\ Returned
  /\ call.forward_mode = "Train"
  /\ call.epsilon = 0
  /\ Cardinality(Layer0Calls) >= 2
  /\ draws = [j \in 1..seq_len |-> 0]

\* C5: in Validation mode timestep 0 feeds layer 0 the ground-truth field
\* of time 0 and every timestep t > 0 feeds it the readout prediction of
\* timestep t - 1; no ground-truth field of a time t > 0 is ever fed.
C5_ValidationAutoregressive ==
  call.forward_mode = "Validation" =>
    /\ draws = <<>>
    /\ \A k \in Layer0Calls :
         /\ (cell_log[k].t = 0 => cell_log[k].input = X(0))
         /\ (cell_log[k].t > 0 => cell_log[k].input = y_log[cell_log[k].t])
         /\ \A s \in 1..seq_len : cell_log[k].input # X(s)

C5_Witness ==
  /\ Returned
  /\ call.forward_mode = "Validation"
  /\ Cardinality(Layer0Calls) >= 2

\* C6: on return mode_output has seq_len entries in timestep order: the
\* squeezed readout prediction of each timestep in Train mode, the loss of
\* that prediction against dev_y[t] in Validation mode.
C6_ModeOutputPerTimestep ==
  Returned =>
    /\ (call.forward_mode = "Train" =>
          /\ mode_output.kind = "tensor"
          /\ Len(mode_output.val) = seq_len
          /\ \A j \in 1..seq_len : mode_output.val[j] = Squeeze(y_log[j]))
    /\ (call.forward_mode = "Validation" =>
          /\ mode_output.kind = "list"
          /\ Len(mode_output.val) = seq_len
          /\ \A j \in 1..seq_len :
               mode_output.val[j] = Loss(Squeeze(y_log[j]), j - 1))

C6_Witness ==
  /\ Returned
  /\ call.forward_mode \in {"Train", "Validation"}
  /\ seq_len >= 2
  /\ Len(mode_output.val) = seq_len
  /\ Len(y_log) = seq_len

\* C7 (as stated): with a forward_mode that is neither 'Train' nor
\* 'Validation' a finished call has raised nothing and returned
\* (null, null), for every seq_len.
C7_UnknownModeNeverRaises ==
  (args.batch_first /\ Called /\ call.forward_mode \notin {"Train", "Validation"}
     /\ Finished) =>
    /\ Returned
    /\ mode_output = NoOutput
    /\ last_layer_hidden_states = None

\* C7 (amended): with a forward_mode that is neither 'Train' nor
\* 'Validation' mode_output and the state to return stay null, so a call
\* that returns returns (null, null); the call raises instead of returning
\* when seq_len = 0 or when the prior state is null.
C7_UnknownModeNullWhenReturned ==
  (Called /\ call.forward_mode \notin {"Train", "Validation"}) =>
    /\ mode_output = NoOutput
    /\ last_layer_hidden_states = None
    /\ (Returned => seq_len >= 1 /\ call.hidden_state # None)
    /\ (Finished /\ args.batch_first
           /\ (seq_len = 0 \/ call.hidden_state = None) => pc = "error")

C7_Witness ==
  /\ Returned
  /\ call.forward_mode = "Test"
  /\ seq_len >= 2
  /\ Len(state_log) = seq_len
  /\ mode_output = NoOutput

\* C8 (as stated): a predictor built with batch_first = false accepts a
\* time-first input: it normalizes it to batch-first, so the call goes on
\* with the axis-swapped sequence and one timestep per entry of the time
\* axis.
C8_TimeFirstNormalized ==
  (Called /\ ~args.batch_first) =>
    /\ err # "NameError: name 'input_tensor' is not defined"
    /\ cur_layer_input = FromNumpy(Permute(call.input_x))
    /\ seq_len = Len(call.input_x)

\* C9: whenever a broadcast list does not have num_layers entries,
\* construction has failed with a ValueError once validation has run, and no
\* cell, no readout layer and no default state has been created.
C9_LengthMismatchFails ==
  LET ks == ExtendForMultilayer(args.kernel_size, args.num_layers)
      hd == ExtendForMultilayer(args.hidden_dim, args.num_layers)
  IN (pc # "new" /\ (Len(ks.elems) # args.num_layers
                       \/ Len(hd.elems) # args.num_layers)) =>
       /\ pc = "ctor_error"
       /\ err \in {"ValueError: Inconsistent list length.",
                   "ValueError: kernel_size must be tuple or list of tuples"}
       /\ cell_list = <<>>
       /\ self_hidden = None
       /\ heap = <<>>

C9_Witness ==
  /\ pc = "ctor_error"
  /\ err = "ValueError: Inconsistent list length."
  /\ kernel_size.islist
  /\ Len(kernel_size.elems) # args.num_layers
  /\ cell_list = <<>>

\* C10: for num_layers >= 1, once the arguments are broadcast a non-list
\* hidden_dim or kernel_size has become a list of num_layers entries each
\* equal to it, and a list argument is kept as it is.
Broadcast(arg, local) ==
  IF arg.islist
    THEN local = arg
    ELSE /\ local.islist
         /\ Len(local.elems) = args.num_layers
         /\ \A j \in 1..Len(local.elems) : local.elems[j] = arg.elems[1]

C10_BroadcastToNumLayers ==
  (pc # "new" /\ args.num_layers >= 1
     /\ CheckKernelSizeConsistency(args.kernel_size)) =>
    /\ Broadcast(args.hidden_dim, hidden_dim)
    /\ Broadcast(args.kernel_size, kernel_size)

C10_Witness ==
  /\ pc = "ready"
  /\ args.num_layers >= 2
  /\ ~args.hidden_dim.islist
  /\ args.kernel_size.islist
  /\ Len(hidden_dim.elems) = args.num_layers
  /\ hidden_dim.elems[2] = args.hidden_dim.elems[1]

\* a pair of integers
IsIntegerPair(e) ==
  e.tag = "tuple" /\ Len(e.val) = 2 /\ "den" \notin DOMAIN e

\* a single pair of integers or a list whose every element is one
IsPairSpec(k) ==
  IF k.islist THEN \A j \in 1..Len(k.elems) : IsIntegerPair(k.elems[j])
              ELSE IsIntegerPair(k.elems[1])

KernelError == "ValueError: kernel_size must be tuple or list of tuples"

\* C11 (as stated): once validation has run, every kernel-shape
\* specification that is not a pair of integers or a list of pairs of
\* integers has made construction fail with a ConfigurationError.
C11_OnlyIntegerPairsAccepted ==
  (pc # "new" /\ ~IsPairSpec(args.kernel_size)) =>
    /\ pc = "ctor_error"
    /\ err \in {KernelError, "ValueError: Inconsistent list length."}

\* C11 (amended): the kernel check fails with a ValueError exactly when the
\* specification is neither a tuple nor a list whose every element is a
\* tuple, and then nothing is built; a pair of integers or a list of such
\* pairs always passes it, and so does any other tuple.
C11_OnlyTuplesChecked ==
  LET k == args.kernel_size
      tuples == IF k.islist THEN \A j \in 1..Len(k.elems) : k.elems[j].tag = "tuple"
                            ELSE k.elems[1].tag = "tuple"
  IN pc # "new" =>
       /\ (err = KernelError <=> ~tuples)
       /\ (err = KernelError => pc = "ctor_error" /\ cell_list = <<>>)
       /\ (IsPairSpec(k) => tuples)

C11_Witness ==
  /\ pc = "ready"
  /\ ~IsPairSpec(args.kernel_size)
  /\ Len(args.kernel_size.elems[1].val) = 3
  /\ Len(cell_list) = args.num_layers + 1

\* the forward call is past lines 69-99 and has not raised
InLoop == pc \in {"loop", "layers", "done"}

\* the values of a list of (h, c) pairs, graph attachment left aside
Values(st) == [l \in 1..Len(st) |-> <<st[l][1].v, st[l][2].v>>]

\* C12: in Train mode the state timestep 0 starts from is the cached
\* default state, still as construction built it for batch size 1, when the
\* prior state is null, and otherwise a state with as many layers as the
\* supplied one, in the same order, with the same hidden and cell values.
C12_TrainInitialState ==
  (call.forward_mode = "Train" /\ InLoop) =>
    /\ (call.hidden_state = None =>
          /\ hidden_state = self_hidden
          /\ heap[hidden_state] = InitHidden(args.num_layers, Batch))
    /\ (call.hidden_state # None =>
          /\ Len(heap[hidden_state]) = Len(prior_val)
          /\ Values(heap[hidden_state]) = Values(prior_val)
          /\ Values(heap[call.hidden_state]) = Values(prior_val))
    /\ \A k \in 1..Len(cell_log) :
         cell_log[k].t = 0 =>
           cell_log[k].state = heap[hidden_state][cell_log[k].layer + 1]

C12_Witness ==
  /\ Returned
  /\ call.forward_mode = "Train"
  /\ call.prior = "returned"
  /\ args.num_layers >= 2
  /\ Values(<<cell_log[2].state>>) = <<Values(prev.state)[2]>>
  /\ prev.call.hidden_state = None
  /\ prev.start = InitHidden(args.num_layers, Batch)

\* C13: a Train call that returns hands back exactly num_layers pairs; a
\* second Train call given that state as its prior state does not raise,
\* and the state it returns has the same number of pairs.
C13_TrainRoundTrip ==
  call.forward_mode = "Train" =>
    /\ (Returned =>
          /\ last_layer_hidden_states # None
          /\ Len(heap[last_layer_hidden_states]) = args.num_layers)
    /\ (call.prior = "returned" /\ prev.call.forward_mode = "Train" =>
          /\ pc # "error"
          /\ Len(prior_val) = args.num_layers
          /\ prior_val = prev.state
          /\ (Returned =>
                Len(heap[last_layer_hidden_states]) = Len(prev.state)))

C13_Witness ==
  /\ Returned
  /\ ncalls = 2
  /\ call.forward_mode = "Train"
  /\ call.prior = "returned"
  /\ prev.call.forward_mode = "Train"
  /\ args.num_layers >= 2
  /\ Len(heap[last_layer_hidden_states]) = Len(prev.state)

\* the field timestep tt feeds to layer 0, from the logs: tt's draw, the
\* previous readout and, for a mode that selects nothing, the field train_x
\* was left holding
ExpectedInput(tt) ==
  LET n == args.num_layers
      d == IF call.forward_mode = "Train" THEN draws[tt + 1] ELSE -1
      cur_y == IF tt = 0 THEN Slice(cur_layer_input, 0) ELSE y_log[tt]
      cur_x == IF tt = 0 THEN Slice(cur_layer_input, 0)
               ELSE cell_log[tt * n].out[1]
  IN SelectedInput(call.forward_mode, d, cur_layer_input, tt, cur_x, cur_y)

\* C14: the cell invocations of a call come timestep by timestep and,
\* within a timestep, layer by layer, one per layer.  Layer 0 gets the
\* selected input and layer i > 0 the hidden output layer i - 1 has just
\* produced; each layer gets its own pair of the previous timestep's state
\* (of the initial state at t = 0); the pairs produced in a timestep, in
\* layer order, are the state after that timestep.
C14_LayerPropagation ==
  InLoop =>
    LET n == args.num_layers
    IN /\ Len(cell_log) = t * n + (IF pc = "layers" THEN layer_idx ELSE 0)
       /\ \A k \in 1..Len(cell_log) :
            LET e == cell_log[k]
            IN /\ e.t = (k - 1) \div n
               /\ e.layer = (k - 1) % n
               /\ e.input = IF e.layer = 0 THEN ExpectedInput(e.t)
                                           ELSE cell_log[k - 1].out[1]
               /\ e.state = IF e.t = 0 THEN heap[hidden_state][e.layer + 1]
                                       ELSE state_log[e.t][e.layer + 1]
               /\ e.out = Cell(e.layer, e.input, e.state)
       /\ Len(state_log) = t
       /\ \A j \in 1..Len(state_log) :
            state_log[j] = [l \in 1..n |-> cell_log[(j - 1) * n + l].out]
       /\ (t > 0 => heap[hidden_states] = state_log[t])

C14_Witness ==
  /\ Returned
  /\ args.num_layers >= 2
  /\ seq_len >= 2
  /\ Len(cell_log) = seq_len * args.num_layers
  /\ cell_log[4].state = state_log[1][2]
  /\ cell_log[4].input = cell_log[3].out[1]

\* a call on a batch-first predictor with at least one timestep, a prior
\* state and a known mode
WellFormedCall ==
  /\ Called
  /\ args.batch_first
  /\ Len(call.input_x[1]) >= 1
  /\ call.hidden_state # None
  /\ call.forward_mode \in {"Train", "Validation"}

\* the timesteps at which layer l's cell has been invoked
TimestepsOf(l) == {cell_log[k].t : k \in {j \in 1..Len(cell_log) : cell_log[j].layer = l}}
CallsOf(l) == Cardinality({j \in 1..Len(cell_log) : cell_log[j].layer = l})

\* C15: a well-formed call never raises and always returns; when it
\* returns it has run the timesteps 0 .. seq_len-1 once each: every layer's
\* cell and the readout have been invoked seq_len times, seq_len being the
\* length of the input's time axis.
C15_Terminates ==
  /\ [](WellFormedCall =>
          /\ pc # "error"
          /\ (Returned =>
                LET n == Len(call.input_x[1])
                IN /\ t = n
                   /\ seq_len = n
                   /\ Len(y_log) = n
                   /\ \A l \in 0..(args.num_layers - 1) :
                        /\ CallsOf(l) = n
                        /\ TimestepsOf(l) = 0..(n - 1)))
  /\ ((WellFormedCall /\ pc \in {"loop", "layers"}) ~> Returned)

C15_Witness ==
  /\ WellFormedCall
  /\ Returned
  /\ Len(call.input_x[1]) >= 3
  /\ args.num_layers >= 2
  /\ CallsOf(1) = 3

\* this call got the mode, the input sequence and the prior state values
\* of the previous call, and its draws came out the same
SameInputsAsPrev ==
  /\ ncalls >= 2
  /\ call.forward_mode = prev.call.forward_mode
  /\ call.forward_mode \in {"Train", "Validation"}
  /\ call.input_x = prev.call.input_x
  /\ (call.hidden_state = None) = (prev.call.hidden_state = None)
  /\ prior_val = prev.prior_val
  /\ draws = prev.draws

\* C16: Train mode makes one draw when it enters a timestep, seq_len per
\* call, and the other modes make none; a call that got the same mode,
\* input sequence and prior state values as the previous call, and in Train
\* mode the same draw outcomes, returns the same mode output and the same
\* state.
C16_DrawsOnlyNondeterminism ==
  /\ (call.forward_mode = "Train" /\ InLoop =>
        Len(draws) = t + (IF pc = "layers" THEN 1 ELSE 0))
  /\ (call.forward_mode = "Train" /\ Returned => Len(draws) = seq_len)
  /\ (call.forward_mode # "Train" => draws = <<>>)
  /\ (Returned /\ SameInputsAsPrev =>
        /\ mode_output = prev.mode_output
        /\ heap[last_layer_hidden_states] = prev.state)

C16_Witness ==
  /\ Returned
  /\ SameInputsAsPrev
  /\ call.forward_mode = "Train"
  /\ call.epsilon = 5
  /\ draws = <<0, 1>>
  /\ mode_output = prev.mode_output

Constructed == pc \in {"ready", "loop", "layers", "done", "error"}

\* C17: whatever forward does, the cached default state stays as
\* construction built it, the list the caller passed as prior state keeps
\* the contents it had at call time, and the input sequence and the tensor
\* made of it stay as passed; the list the layer loop fills is never the
\* cached state, the caller's list, the current state or the snapshot; so a
\* later Train call without prior state starts from the default state again.
C17_ForwardFrame ==
  /\ (Constructed =>
        heap[self_hidden] = InitHidden(args.num_layers, Batch))
  /\ (Called /\ call.hidden_state # None =>
        heap[call.hidden_state] = prior_val)
  /\ (InLoop =>
        /\ call.input_x = InputBF(seq_len)
        /\ cur_layer_input = FromNumpy(call.input_x)
        /\ one_timestamp_output \notin
             {self_hidden, call.hidden_state, hidden_states,
              last_layer_hidden_states}
        /\ (pc # "done" => heap[one_timestamp_output]
                             = [l \in 1..(IF pc = "layers" THEN layer_idx ELSE 0)
                                  |-> cell_log[t * args.num_layers + l].out]))
  /\ (ncalls >= 2 /\ call.forward_mode = "Train" /\ call.hidden_state = None =>
        \A k \in 1..Len(cell_log) :
          cell_log[k].t = 0 =>
            cell_log[k].state = CellInitHidden(cell_log[k].layer, Batch))

C17_Witness ==
  /\ Returned
  /\ ncalls = 2
  /\ call.forward_mode = "Train"
  /\ call.hidden_state = None
  /\ prev.call.forward_mode = "Train"
  /\ prev.call.hidden_state = None
  /\ prev.start = heap[self_hidden]
  /\ seq_len >= 2
  /\ cell_log[1].state = prev.start[1]

\* C18: a Validation call with a null prior state uses no fallback: the
\* state it would start from stays null and the call never returns; once it
\* has finished it has raised with no cell invoked, no readout made, no
\* loss appended and no snapshot taken, and when the sequence has a
\* timestep the failure is the subscript of the null state at timestep 0,
\* layer 0.
C18_ValidationNullStateFails ==
  (call.forward_mode = "Validation" /\ call.hidden_state = None) =>
    /\ hidden_state = None
    /\ hidden_state # self_hidden
    /\ pc # "done"
    /\ cell_log = <<>>
    /\ y_log = <<>>
    /\ forward_loss = <<>>
    /\ last_layer_hidden_states = None
    /\ mode_output = NoOutput
    /\ (pc \in {"loop", "layers"} => t = 0 /\ layer_idx = 0)
    /\ (Finished =>
          /\ pc = "error"
          /\ (seq_len >= 1 =>
                /\ err = "TypeError: 'NoneType' object is not subscriptable"
                /\ t = 0
                /\ layer_idx = 0))

C18_Witness ==
  /\ call.forward_mode = "Validation"
  /\ call.hidden_state = None
  /\ pc = "error"
  /\ seq_len >= 2
  /\ err = "TypeError: 'NoneType' object is not subscriptable"
  /\ cell_log = <<>>

\* entry idx (from 1) of an argument after broadcasting
ArgAt(arg, idx) == IF arg.islist THEN arg.elems[idx] ELSE arg.elems[1]

\* C19: a constructed predictor owns num_layers ConvLSTMCell units followed
\* by one Conv2d readout; cell 0 takes input_dim channels and cell i > 0
\* takes hidden_dim[i-1]; cell i has hidden_dim[i] hidden channels and
\* kernel kernel_size[i]; the readout takes hidden_dim[num_layers-1]
\* channels.  While the cells are being built, the list holds the first
\* i of them.
C19_CellListLayout ==
  LET n == args.num_layers
  IN /\ (pc = "ctor_cells" => Len(cell_list) = i)
     /\ (Constructed =>
           /\ Len(cell_list) = n + 1
           /\ \A idx \in 1..n :
                /\ cell_list[idx].kind = "ConvLSTMCell"
                /\ cell_list[idx].input_dim =
                     (IF idx = 1 THEN PyInt(args.input_dim)
                                 ELSE ArgAt(args.hidden_dim, idx - 1))
                /\ cell_list[idx].hidden_dim = ArgAt(args.hidden_dim, idx)
                /\ cell_list[idx].kernel_size = ArgAt(args.kernel_size, idx)
           /\ cell_list[n + 1].kind = "Conv2d"
           /\ cell_list[n + 1].input_dim = ArgAt(args.hidden_dim, n))

C19_Witness ==
  /\ pc = "ready"
  /\ args.num_layers = 2
  /\ args.hidden_dim.islist
  /\ args.kernel_size.islist
  /\ cell_list[1].input_dim = PyInt(1)
  /\ cell_list[2].input_dim = PyInt(4)
  /\ cell_list[2].hidden_dim = PyInt(8)
  /\ cell_list[3].input_dim = PyInt(8)
  /\ cell_list[2].kernel_size = PyTuple(<<5, 5>>)

====
